---- MODULE Spec2Model ----
(***************************************************************************)
(* Model of the admin server in src/index.js: five read-only HTTP handlers *)
(* over a Firestore database and a remote game server.                     *)
(*                                                                         *)
(* A handler is an async function: it runs without interruption up to its  *)
(* next `await`, so one action of the model is one such run: it consumes   *)
(* the result of the call the handler is suspended on and issues the next  *)
(* call.  Between two actions of a handler the environment (other writers  *)
(* of the database, the clock, the store's availability, the game server)  *)
(* may move.                                                               *)
(***************************************************************************)
EXTENDS Integers, Sequences, FiniteSets, TLC

VARIABLES
    db,         \* the Firestore collections: name -> (document id -> data)
    storeUp,    \* whether Firestore answers the next query or rejects it
    net,        \* how the game server answers GET /api/stats right now
    clock,      \* the wall clock, in half days
    op,         \* the route of the request being handled
    pc,         \* the await the handler is suspended on ("idle", "done")
    loc,        \* the handler's local variables
    response,   \* the HTTP response of the request
    sent,       \* how many responses the request has produced
    issued,     \* the I/O calls the request has issued so far
    completed,  \* the I/O calls of the request that have completed
    failedQ,    \* the Firestore queries of the request that were rejected
    dirty,      \* whether the database changed since the request started
    pinned      \* an earlier completed request, kept for comparison

vars == <<db, storeUp, net, clock, op, pc, loc, response, sent,
          issued, completed, failedQ, dirty, pinned>>

envVars == <<db, storeUp, net, clock>>

----------------------------------------------------------------------------
(* Bounds of the model *)

MaxDates == 8       \* peak_stats documents have dates in 1..MaxDates
MaxPlayers == 11    \* player_stats documents of the leaderboard check
MaxMatches == 2     \* matches documents of the balance check
MaxActive == 2      \* player_stats documents of the activity check
MaxTicks == 1       \* ticks of the clock
MaxLive == 2        \* the largest counter the game server reports

(* Program constants *)

HistoryLimit == 7       \* .limit(7)
SampleLimit == 1000     \* .limit(1000)
TopLimit == 10          \* .limit(10)
WeekDays == 7           \* 7 * 24 * 60 * 60 * 1000
MsPerMinute == 60000    \* avgDurationMs / 60000

(* Scale of the clock: the units of a calendar day, more than one so that *)
(* a timestamp can lie after midnight.                                    *)
UnitsPerDay == 2

Null == 0 - 1           \* JS null / undefined in a numeric field

----------------------------------------------------------------------------
(* Generic helpers *)

Min(a, b) == IF a < b THEN a ELSE b

RECURSIVE SumOver(_, _)
SumOver(f, S) ==
    IF S = {} THEN 0
    ELSE LET x == CHOOSE y \in S : TRUE IN f[x] + SumOver(f, S \ {x})

Reverse(s) == [i \in 1..Len(s) |-> s[Len(s) + 1 - i]]

(* Math.round(n / d) for d > 0: the nearest integer, halves towards +inf.  *)
(* \div is the floor division.                                            *)
RoundDiv(n, d) == (2 * n + d) \div (2 * d)

(* Firestore: collection.orderBy(field, 'desc').  keys maps each document  *)
(* id to the value of the field; equal values are ordered by document id, *)
(* in the direction of the query.  The result is the sequence of ids.     *)
RECURSIVE OrderByDesc(_)
OrderByDesc(keys) ==
    IF DOMAIN keys = {} THEN <<>>
    ELSE LET top == CHOOSE i \in DOMAIN keys :
                      \A j \in DOMAIN keys :
                         \/ keys[j] < keys[i]
                         \/ keys[j] = keys[i] /\ j <= i
         IN <<top>> \o OrderByDesc([j \in DOMAIN keys \ {top} |-> keys[j]])

(* Firestore: query.limit(n) *)
Limit(s, n) == SubSeq(s, 1, Min(n, Len(s)))

(* Firestore: collection.count() *)
Count(coll) == Cardinality(DOMAIN coll)

----------------------------------------------------------------------------
(* JSON values of the game server's body, as JS sees them *)

JInt(n) == [t |-> "int", v |-> n]
JFrac == [t |-> "other", v |-> 0]       \* a number that is no integer, a string
JUndef == [t |-> "undefined", v |-> 0]  \* a property the object lacks

LiveFields == {"connectedUsers", "activeMatches", "usersInLobby", "usersInMatch"}

FieldVals == {JUndef, JFrac} \cup {JInt(n) : n \in Null..MaxLive}

NoFields == [f \in LiveFields |-> JUndef]

(* The bodies a 2xx answer may carry: text that is no JSON, the JSON null, *)
(* a JSON scalar or array (which has none of the properties), an object.  *)
Bodies ==
    {[shape |-> s, f |-> NoFields] : s \in {"unparseable", "null", "scalar"}}
    \cup {[shape |-> "object", f |-> g] : g \in [LiveFields -> FieldVals]}

NoBody == [shape |-> "none", f |-> NoFields]

(* What the game server does with a request: the connection fails, no     *)
(* answer ever comes, a non-2xx status, or a 2xx status with a body.      *)
Nets ==
    {[kind |-> k, body |-> NoBody] : k \in {"neterr", "hang", "nonok"}}
    \cup {[kind |-> "ok", body |-> b] : b \in Bodies}

----------------------------------------------------------------------------
(* Documents *)

PeakDocs(S) == [d \in S |-> [date |-> d]]

NoLoc == [none |-> TRUE]
NoResponse == [status |-> 0, body |-> [none |-> TRUE]]
NoPin == [none |-> TRUE]

(* The state of the server between requests *)
Idle ==
    /\ op = "none"
    /\ pc = "idle"
    /\ loc = NoLoc
    /\ response = NoResponse
    /\ sent = 0
    /\ issued = {}
    /\ completed = {}
    /\ failedQ = {}
    /\ dirty = FALSE
    /\ pinned = NoPin

(* A request arrives: fastify calls the route's handler.  One request is  *)
(* followed from its arrival to its response; the next one may arrive     *)
(* once it is answered.                                                   *)
Arrive(route, await, locals, calls) ==
    /\ pc \in {"idle", "done"}
    /\ op' = route
    /\ pc' = await
    /\ loc' = locals
    /\ response' = NoResponse
    /\ sent' = 0
    /\ issued' = calls
    /\ completed' = {}
    /\ failedQ' = {}
    /\ dirty' = FALSE
    /\ UNCHANGED <<envVars, pinned>>

(* The handler resumes from the await on `call` and suspends on `next`.   *)
Resume(call, next, locals) ==
    /\ pc' = next
    /\ loc' = locals
    /\ completed' = completed \cup {call}
    /\ issued' = issued \cup {next}
    /\ UNCHANGED <<envVars, op, response, sent, failedQ, dirty, pinned>>

(* The handler returns `result`: fastify sends it with status 200.        *)
Return(call, result) ==
    /\ pc' = "done"
    /\ response' = [status |-> 200, body |-> result]
    /\ sent' = sent + 1
    /\ completed' = completed \cup {call}
    /\ UNCHANGED <<envVars, op, loc, issued, failedQ, dirty, pinned>>


(* Faulty variant: the catch answers with what the handler had gathered so far. *)
ErrorReplyPartial(msg) ==
    [status |-> 500, body |-> [error |-> msg, live |-> loc.liveStats]]

(* catch (error) { fastify.log.error(error);                              *)
(*                 return reply.status(500).send({ error: msg }) }        *)
ErrorReply(msg) == [status |-> 500, body |-> [error |-> msg]]

(* The awaited query `call` was rejected: the handler's catch answers.    *)
Throw(call, msg) ==
    /\ pc' = "done"
    /\ response' = ErrorReply(msg)
    /\ sent' = sent + 1
    /\ completed' = completed \cup {call}
    /\ failedQ' = failedQ \cup {call}
    /\ UNCHANGED <<envVars, op, loc, issued, dirty, pinned>>

----------------------------------------------------------------------------
(* GET /api/stats *)

(* let liveStats = { connectedUsers: 0, activeMatches: 0, ... } *)
ZeroLive == [f \in LiveFields |-> JInt(0)]

(* liveStats = { connectedUsers: data.connectedUsers, ... } for the value *)
(* `data` that response.json() resolved to.                               *)
LiveFrom(data) == [f \in LiveFields |-> data.f[f]]

(* Lines 66-76: the body is read and parsed.  json() rejects on text that *)
(* is no JSON, and reading a property of null throws; both land in the    *)
(* inner catch, which leaves liveStats as it was.                         *)
ReadLive(liveStats, body) ==
    IF body.shape \in {"unparseable", "null"} THEN liveStats
    ELSE LiveFrom(body)


(* Faulty variant: the documents are returned as queried, newest first. *)
RecentHistoryUnreversed(coll) ==
    LET ids == Limit(OrderByDesc([i \in DOMAIN coll |-> coll[i].date]), HistoryLimit)
    IN [k \in 1..Len(ids) |-> coll[ids[k]]]

(* db.collection('peak_stats').orderBy('date', 'desc').limit(7).get(),    *)
(* then docs.map(doc => doc.data()).reverse()                             *)
RecentHistory(coll) ==
    LET ids == Limit(OrderByDesc([i \in DOMAIN coll |-> coll[i].date]), HistoryLimit)
    IN Reverse([k \in 1..Len(ids) |-> coll[ids[k]]])

(* const result = { live, history, totalUsers, totalMatches, activeUsers, *)
(*                  avgTime, winRatio }                                   *)
StatsResult(l) ==
    [live |-> l.liveStats,
     history |-> l.history,
     totalUsers |-> l.totalUsers,
     totalMatches |-> l.totalMatches,
     activeUsers |-> l.liveStats["connectedUsers"],
     avgTime |-> "12m",
     winRatio |-> "48%"]

StatsFailed == "Failed to fetch dashboard stats"


(* Faulty variant: liveStats lives at module scope and keeps the last answer. *)
StatsLocalsKept ==
    [liveStats |-> IF "liveStats" \in DOMAIN loc THEN loc.liveStats ELSE ZeroLive,
     fetched |-> "pending", body |-> NoBody,
     history |-> <<>>, totalUsers |-> 0, totalMatches |-> 0]

StatsLocals ==
    [liveStats |-> ZeroLive, fetched |-> "pending", body |-> NoBody,
     history |-> <<>>, totalUsers |-> 0, totalMatches |-> 0]

(* The request arrives; the handler runs to `await fetch(...)`.           *)
StatsArrive == Arrive("stats", "fetch", StatsLocals, {"fetch"})

(* fetch settles: rejected (inner catch), a non-2xx status (the if is     *)
(* skipped), or a 2xx status, and then the handler awaits json().  With   *)
(* no answer from the game server fetch does not settle.                  *)
StatsFetched ==
    /\ op = "stats" /\ pc = "fetch"
    /\ net.kind # "hang"
    /\ IF net.kind = "ok"
       THEN /\ pc' = "json"
            /\ loc' = [loc EXCEPT !.fetched = "ok", !.body = net.body]
            /\ UNCHANGED <<envVars, op, response, sent, issued, completed,
                           failedQ, dirty, pinned>>
       ELSE Resume("fetch", "history", [loc EXCEPT !.fetched = net.kind])

(* json() settles; the handler goes on to the peak_stats query.           *)
StatsParsed ==
    /\ op = "stats" /\ pc = "json"
    /\ Resume("fetch", "history",
              [loc EXCEPT !.liveStats = ReadLive(loc.liveStats, loc.body)])

StatsHistory ==
    /\ op = "stats" /\ pc = "history"
    /\ IF storeUp
       THEN Resume("history", "players",
                   [loc EXCEPT !.history = RecentHistory(db.peak_stats)])
       ELSE Throw("history", StatsFailed)

StatsPlayers ==
    /\ op = "stats" /\ pc = "players"
    /\ IF storeUp
       THEN Resume("players", "matches",
                   [loc EXCEPT !.totalUsers = Count(db.player_stats)])
       ELSE Throw("players", StatsFailed)

StatsMatches ==
    /\ op = "stats" /\ pc = "matches"
    /\ IF storeUp
       THEN /\ loc' = [loc EXCEPT !.totalMatches = Count(db.matches)]
            /\ pc' = "done"
            /\ response' = [status |-> 200, body |-> StatsResult(loc')]
            /\ sent' = sent + 1
            /\ completed' = completed \cup {"matches"}
            /\ UNCHANGED <<envVars, op, issued, failedQ, dirty, pinned>>
       ELSE Throw("matches", StatsFailed)

----------------------------------------------------------------------------
(* GET /api/feedback *)

(* docs.map(doc => ({ id, ...doc.data(), createdAt: createdAt?.toDate() || null })) *)
(* over db.collection('feedback').orderBy('createdAt', 'desc')            *)
FeedbackList(coll) ==
    LET ids == OrderByDesc([i \in DOMAIN coll |-> coll[i].createdAt])
    IN [k \in 1..Len(ids) |-> [id |-> ids[k], createdAt |-> coll[ids[k]].createdAt]]

FeedbackArrive == Arrive("feedback", "feedback", NoLoc, {"feedback"})

FeedbackQuery ==
    /\ op = "feedback" /\ pc = "feedback"
    /\ IF storeUp
       THEN Return("feedback", FeedbackList(db.feedback))
       ELSE Throw("feedback", "Failed to fetch feedback")

----------------------------------------------------------------------------
(* GET /api/analytics/balance.  Rates and minutes are kept in tenths: the *)
(* handler returns Math.round(x * 10) / 10, the model Math.round(x * 10). *)

(* db.collection('matches').orderBy('endedAt', 'desc').limit(1000)        *)
MatchSample(coll) ==
    LET ids == Limit(OrderByDesc([i \in DOMAIN coll |-> coll[i].endedAt]), SampleLimit)
    IN [k \in 1..Len(ids) |-> coll[ids[k]]]

(* The truth value JS gives a numeric field: null, undefined and 0 are    *)
(* false.                                                                 *)
Truthy(x) == x # Null /\ x # 0

(* m => m.startedAt && m.endedAt *)
HasDuration(m) == Truthy(m.startedAt) /\ Truthy(m.endedAt)

(* matches.filter(m => m.winningTeam === team).length *)
Wins(matches, team) ==
    Cardinality({k \in 1..Len(matches) : matches[k].winningTeam = team})

(* the players of m.players that abandoned *)
Abandoned(list) == Cardinality({k \in 1..Len(list) : list[k].abandoned})

(* Math.round(impostorWinRate * 10) *)
ImpostorWinRate(matches) ==
    LET impostorWins == Wins(matches, "impostor")
        friendsWins == Wins(matches, "friends")
        validMatches == impostorWins + friendsWins
    IN IF validMatches > 0 THEN RoundDiv(impostorWins * 100 * 10, validMatches) ELSE 0

(* Math.round(avgDurationMinutes * 10) *)
AvgDurationMinutes(matches) ==
    LET withDuration == {k \in 1..Len(matches) : HasDuration(matches[k])}
        totalDuration ==
            SumOver([k \in withDuration |-> matches[k].endedAt - matches[k].startedAt],
                    withDuration)
        n == Cardinality(withDuration)
    IN IF n > 0 THEN RoundDiv(totalDuration * 10, n * MsPerMinute) ELSE 0

(* Math.round(abandonmentRate * 10) *)
AbandonmentRate(matches) ==
    LET with == {k \in 1..Len(matches) : matches[k].players.isArray}
        totalPlayers == SumOver([k \in with |-> Len(matches[k].players.list)], with)
        abandonedPlayers ==
            SumOver([k \in with |-> Abandoned(matches[k].players.list)], with)
    IN IF totalPlayers > 0 THEN RoundDiv(abandonedPlayers * 100 * 10, totalPlayers) ELSE 0

BalanceResult(matches) ==
    IF Len(matches) = 0
    THEN [impostorWinRate |-> 0, avgDurationMinutes |-> 0,
          abandonmentRate |-> 0, sampleSize |-> 0]
    ELSE [impostorWinRate |-> ImpostorWinRate(matches),
          avgDurationMinutes |-> AvgDurationMinutes(matches),
          abandonmentRate |-> AbandonmentRate(matches),
          sampleSize |-> Len(matches)]

BalanceArrive == Arrive("balance", "sample", NoLoc, {"sample"})

BalanceQuery ==
    /\ op = "balance" /\ pc = "sample"
    /\ IF storeUp
       THEN Return("sample", BalanceResult(MatchSample(db.matches)))
       ELSE Throw("sample", "Failed to fetch balance analytics")

----------------------------------------------------------------------------
(* GET /api/analytics/players *)


(* Faulty variant: the limit is applied to the collection, before the ordering. *)
TopPlayersByLimitFirst(coll, field) ==
    LET some == {i \in DOMAIN coll : i <= TopLimit}
        ids == OrderByDesc([i \in some |-> coll[i][field]])
    IN [k \in 1..Len(ids) |-> ("uid" :> ids[k]) @@ coll[ids[k]]]

(* db.collection('player_stats').orderBy(field, 'desc').limit(10), then   *)
(* docs.map(doc => ({ uid: doc.id, ...doc.data() }))                      *)
TopPlayersBy(coll, field) ==
    LET ids == Limit(OrderByDesc([i \in DOMAIN coll |-> coll[i][field]]), TopLimit)
    IN [k \in 1..Len(ids) |-> ("uid" :> ids[k]) @@ coll[ids[k]]]

PlayersFailed == "Failed to fetch player analytics"

PlayersArrive ==
    Arrive("players", "topByPoints", [topByPoints |-> <<>>], {"topByPoints"})

PlayersByPoints ==
    /\ op = "players" /\ pc = "topByPoints"
    /\ IF storeUp
       THEN Resume("topByPoints", "topByGames",
                   [topByPoints |-> TopPlayersBy(db.player_stats, "points")])
       ELSE Throw("topByPoints", PlayersFailed)

PlayersByGames ==
    /\ op = "players" /\ pc = "topByGames"
    /\ IF storeUp
       THEN Return("topByGames",
                   [topByPoints |-> loc.topByPoints,
                    topByGames |-> TopPlayersBy(db.player_stats, "gamesPlayed")])
       ELSE Throw("topByGames", PlayersFailed)

----------------------------------------------------------------------------
(* GET /api/analytics/activity *)

(* new Date(now.getFullYear(), now.getMonth(), now.getDate()) *)
TodayStart(now) == now - (now % UnitsPerDay)

(* new Date(todayStart.getTime() - 7 * 24 * 60 * 60 * 1000) *)
WeekAgoStart(todayStart) == todayStart - WeekDays * UnitsPerDay

(* db.collection('player_stats').where(field, '>=', threshold).count()    *)
CountWhere(coll, field, threshold) ==
    Cardinality({i \in DOMAIN coll :
                    coll[i][field] # Null /\ coll[i][field] >= threshold})


(* Faulty variant: the week's count is queried before the day's. *)
ActivityPlanWeekFirst == <<"wau", "dau", "newUsersToday", "totalUsers">>

(* The handler's four queries, in the order it awaits them. *)
ActivityPlan == <<"dau", "wau", "newUsersToday", "totalUsers">>

ActivityCount(name, l) ==
    CASE name = "dau" -> CountWhere(db.player_stats, "lastPlayedAt", l.todayStart)
      [] name = "wau" -> CountWhere(db.player_stats, "lastPlayedAt", l.weekAgoStart)
      [] name = "newUsersToday" -> CountWhere(db.player_stats, "firstSeenAt", l.todayStart)
      [] name = "totalUsers" -> Count(db.player_stats)

(* dauWauRatio: wau > 0 ? Math.round((dau / wau) * 100) : 0 *)
DauWauRatio(dau, wau) == IF wau > 0 THEN RoundDiv(dau * 100, wau) ELSE 0

ActivityResult(c) ==
    [dau |-> c.dau, wau |-> c.wau, newUsersToday |-> c.newUsersToday,
     totalUsers |-> c.totalUsers, dauWauRatio |-> DauWauRatio(c.dau, c.wau)]

ActivityFailed == "Failed to fetch activity analytics"

ActivityLocals ==
    [todayStart |-> TodayStart(clock),
     weekAgoStart |-> WeekAgoStart(TodayStart(clock)),
     step |-> 1,
     count |-> [dau |-> 0, wau |-> 0, newUsersToday |-> 0, totalUsers |-> 0]]

ActivityArrive ==
    Arrive("activity", ActivityPlan[1], ActivityLocals, {ActivityPlan[1]})

(* One of the four count queries settles. *)
ActivityQuery ==
    /\ op = "activity" /\ pc \notin {"idle", "done"}
    /\ LET name == ActivityPlan[loc.step]
           count == [loc.count EXCEPT ![name] = ActivityCount(name, loc)]
       IN IF ~storeUp THEN Throw(name, ActivityFailed)
          ELSE IF loc.step < Len(ActivityPlan)
          THEN Resume(name, ActivityPlan[loc.step + 1],
                      [loc EXCEPT !.count = count, !.step = loc.step + 1])
          ELSE Return(name, ActivityResult(count))

----------------------------------------------------------------------------
(* The environment *)

(* Firestore becomes unreachable, or reachable again.                     *)
StoreFlip ==
    /\ storeUp' = ~storeUp
    /\ UNCHANGED <<db, net, clock, op, pc, loc, response, sent, issued,
                   completed, failedQ, dirty, pinned>>

(* The first instant of the model: the second half of the eighth day, so  *)
(* that a week before today's midnight is instant 0.                      *)
StartClock == WeekDays * UnitsPerDay + 1

(* Time passes. *)
Tick ==
    /\ clock < StartClock + MaxTicks
    /\ clock' = clock + 1
    /\ UNCHANGED <<db, storeUp, net, op, pc, loc, response, sent, issued,
                   completed, failedQ, dirty, pinned>>

(* The game server starts answering differently. *)
GameServerChange(answers) ==
    /\ \E n \in answers \ {net} : net' = n
    /\ UNCHANGED <<db, storeUp, clock, op, pc, loc, response, sent, issued,
                   completed, failedQ, dirty, pinned>>

Player(points, gamesPlayed, firstSeenAt, lastPlayedAt) ==
    [points |-> points, gamesPlayed |-> gamesPlayed,
     firstSeenAt |-> firstSeenAt, lastPlayedAt |-> lastPlayedAt]

(* The game server records a player's first game: a new document. *)
CreatePlayer ==
    /\ Count(db.player_stats) < MaxActive
    /\ db' = [db EXCEPT !.player_stats =
                 Append(db.player_stats, Player(0, 1, clock, clock))]
    /\ dirty' = TRUE
    /\ UNCHANGED <<storeUp, net, clock, op, pc, loc, response, sent, issued,
                   completed, failedQ, pinned>>

(* The game server records another game of a player. *)
RecordGame ==
    /\ \E i \in DOMAIN db.player_stats :
          /\ db.player_stats[i].lastPlayedAt < clock
          /\ db' = [db EXCEPT !.player_stats[i].lastPlayedAt = clock]
    /\ dirty' = TRUE
    /\ UNCHANGED <<storeUp, net, clock, op, pc, loc, response, sent, issued,
                   completed, failedQ, pinned>>

(* What a request saw of the world besides the database: the queries the  *)
(* store rejected, the game server's answer, the day.                     *)
Seen ==
    [failed |-> failedQ,
     world |-> CASE op = "stats" -> <<loc.fetched, loc.body>>
                 [] op = "activity" -> <<loc.todayStart>>
                 [] OTHER -> <<>>]

(* An observer keeps one answered request, whose database is still as the *)
(* request found it, to compare the requests after it with.               *)
Pin ==
    /\ pc = "done" /\ ~dirty /\ pinned = NoPin
    /\ pinned' = [op |-> op, db |-> db, seen |-> Seen, response |-> response]
    /\ pc' = "idle"
    /\ UNCHANGED <<envVars, op, loc, response, sent, issued, completed,
                   failedQ, dirty>>

----------------------------------------------------------------------------
(* Databases and answers the specifications start from *)

Seqs(S, n) == UNION {[1..k -> S] : k \in 0..n}

Db(peak, players, matches, feedback) ==
    [peak_stats |-> peak, player_stats |-> players,
     matches |-> matches, feedback |-> feedback]

Match(startedAt, endedAt, winningTeam, isArray, list) ==
    [startedAt |-> startedAt, endedAt |-> endedAt, winningTeam |-> winningTeam,
     players |-> [isArray |-> isArray, list |-> list]]

APlayer == Player(1, 1, 1, 1)
AMatch == Match(1, 2, "impostor", TRUE, <<[abandoned |-> FALSE]>>)
AFeedback == [createdAt |-> 1]

(* A game server body with every counter present and equal to n *)
Healthy(n) == [kind |-> "ok", body |-> [shape |-> "object", f |-> [f \in LiveFields |-> JInt(n)]]]
Silent == [kind |-> "hang", body |-> NoBody]
Refused == [kind |-> "neterr", body |-> NoBody]

Rejected == [kind |-> "nonok", body |-> NoBody]

FewNets == {Healthy(MaxLive), Refused, Rejected, Silent}

----------------------------------------------------------------------------
(* GET /api/stats against every answer of the game server *)

StatsInit ==
    /\ Idle
    /\ storeUp \in BOOLEAN
    /\ clock = StartClock
    /\ net \in Nets
    /\ \E n \in 0..1 :
          db = Db(PeakDocs(1..n), [i \in 1..n |-> APlayer],
                  [i \in 1..(2 * n) |-> AMatch], <<>>)

StatsNext ==
    \/ StatsArrive
    \/ StatsFetched
    \/ StatsParsed
    \/ StatsHistory
    \/ StatsPlayers
    \/ StatsMatches
    \/ StoreFlip

StatsSpec == StatsInit /\ [][StatsNext]_vars

(* GET /api/stats while the game server changes its answers.  The event  *)
(* loop runs a handler's continuation once the call it awaits has         *)
(* settled, and a settled call stays settled: strong fairness of the      *)
(* handler's steps, since here the answer is read when the handler        *)
(* resumes.  Nothing makes the game server answer.                        *)
StatsFairInit ==
    /\ Idle
    /\ storeUp \in BOOLEAN
    /\ clock = StartClock
    /\ net \in FewNets
    /\ db = Db(PeakDocs(1..2), <<APlayer>>, <<AMatch>>, <<>>)

StatsStep ==
    \/ StatsFetched
    \/ StatsParsed
    \/ StatsHistory
    \/ StatsPlayers
    \/ StatsMatches

StatsFairNext ==
    \/ StatsArrive
    \/ StatsStep
    \/ StoreFlip
    \/ GameServerChange(FewNets)

StatsFairSpec == StatsFairInit /\ [][StatsFairNext]_vars /\ SF_vars(StatsStep)

(* GET /api/stats over every set of peak_stats documents *)
HistoryInit ==
    /\ Idle
    /\ storeUp \in BOOLEAN
    /\ clock = StartClock
    /\ net \in {Healthy(MaxLive), Refused}
    /\ \E S \in SUBSET (1..MaxDates) :
          db = Db(PeakDocs(S), <<APlayer>>, <<AMatch>>, <<>>)

HistorySpec == HistoryInit /\ [][StatsNext]_vars

----------------------------------------------------------------------------
(* GET /api/analytics/players over player_stats collections with ties *)

Profiles == {Player(1, 2, Null, Null), Player(2, 1, Null, Null)}

PlayersInit ==
    /\ Idle
    /\ storeUp \in BOOLEAN
    /\ clock = StartClock
    /\ net = Refused
    /\ \E ps \in Seqs(Profiles, MaxPlayers) : db = Db(<<>>, ps, <<>>, <<>>)

PlayersNext ==
    \/ PlayersArrive
    \/ PlayersByPoints
    \/ PlayersByGames
    \/ StoreFlip

PlayersSpec == PlayersInit /\ [][PlayersNext]_vars

----------------------------------------------------------------------------
(* GET /api/analytics/balance over samples of matches *)

Outcomes ==
    {<<"impostor", TRUE, <<[abandoned |-> TRUE], [abandoned |-> FALSE]>>>>,
     <<"friends", TRUE, <<[abandoned |-> FALSE]>>>>,
     <<"none", FALSE, <<>>>>}

StartTimes == {Null, 0, MsPerMinute}
EndTimes == {Null, 0, 11 * MsPerMinute, 16 * MsPerMinute + 3000}

(* A match does not end before it starts. *)
MatchTimes ==
    {t \in StartTimes \X EndTimes : t[1] = Null \/ t[2] = Null \/ t[1] <= t[2]}

MatchDocs == {Match(t[1], t[2], o[1], o[2], o[3]) : t \in MatchTimes, o \in Outcomes}

BalanceInit ==
    /\ Idle
    /\ storeUp \in BOOLEAN
    /\ clock = StartClock
    /\ net = Refused
    /\ \E ms \in Seqs(MatchDocs, MaxMatches) : db = Db(<<>>, <<>>, ms, <<>>)

BalanceNext ==
    \/ BalanceArrive
    \/ BalanceQuery
    \/ StoreFlip

BalanceSpec == BalanceInit /\ [][BalanceNext]_vars

----------------------------------------------------------------------------
(* GET /api/analytics/activity while the game server writes player_stats  *)

ActivePlayers ==
    {Player(0, 1, f, l) : f \in {1, StartClock - 1}, l \in {Null, 1, StartClock - 1}}

ActivityInit ==
    /\ Idle
    /\ storeUp \in BOOLEAN
    /\ clock = StartClock
    /\ net = Refused
    /\ \E ps \in Seqs(ActivePlayers, MaxActive) : db = Db(<<>>, ps, <<>>, <<>>)

ActivityNext ==
    \/ ActivityArrive
    \/ ActivityQuery
    \/ StoreFlip
    \/ Tick
    \/ CreatePlayer
    \/ RecordGame

ActivitySpec == ActivityInit /\ [][ActivityNext]_vars

----------------------------------------------------------------------------
(* The server: every route, one request after the other *)

Init ==
    /\ Idle
    /\ storeUp = TRUE
    /\ clock = StartClock
    /\ net = Healthy(MaxLive)
    /\ db = Db(PeakDocs(1..2), <<APlayer>>, <<AMatch>>, <<AFeedback>>)

Next ==
    \/ FeedbackArrive
    \/ FeedbackQuery
    \/ StatsArrive
    \/ StatsStep
    \/ BalanceArrive
    \/ BalanceQuery
    \/ PlayersArrive
    \/ PlayersByPoints
    \/ PlayersByGames
    \/ ActivityArrive
    \/ ActivityQuery
    \/ StoreFlip
    \/ Tick
    \/ GameServerChange(FewNets)
    \/ CreatePlayer
    \/ Pin

Spec == Init /\ [][Next]_vars

----------------------------------------------------------------------------
(* Properties *)

Answered(route) == op = route /\ pc = "done"
Succeeded(route) == Answered(route) /\ response.status = 200

(* A body that is not the expected object of four integers *)
Malformed(body) ==
    body.shape # "object" \/ \E f \in LiveFields : body.f[f].t # "int"

TelemetryFailed(l) ==
    l.fetched \in {"neterr", "nonok"} \/ (l.fetched = "ok" /\ Malformed(l.body))

(* C1: an aggregated-stats request whose repository queries all succeed   *)
(* and whose telemetry fetch ends in a network error, a non-success       *)
(* status or a malformed body is answered successfully, with every live   *)
(* counter and activeUsers equal to 0.                                    *)
C1_FailedTelemetryIsZero ==
    (Answered("stats") /\ failedQ = {} /\ TelemetryFailed(loc)) =>
        /\ response.status = 200
        /\ response.body.live = ZeroLive
        /\ response.body.activeUsers = JInt(0)

PayloadFields == {"live", "history", "totalUsers", "totalMatches"}

(* C2: an aggregated-stats request fails exactly when one of its          *)
(* repository queries was rejected, and then with one failure response    *)
(* that carries no payload field, whatever the telemetry did.             *)
C2_RepositoryFailureFails ==
    Answered("stats") =>
        /\ response.status \in {200, 500}
        /\ sent = 1
        /\ failedQ # {} =>
              /\ response.status = 500
              /\ DOMAIN response.body \cap PayloadFields = {}
        /\ response.status = 500 => failedQ # {}

C2_Witness ==
    /\ Answered("stats")
    /\ failedQ = {"players"}
    /\ loc.fetched = "ok"
    /\ response.status = 500

StatsCalls == {"fetch", "history", "players", "matches"}

(* C3: within an aggregated-stats request all four calls are issued       *)
(* before any of them has completed.                                      *)
C3_FanOut ==
    (op = "stats" /\ completed # {}) => issued = StatsCalls

(* C4: every aggregated-stats request eventually ends, answered or        *)
(* failed, also when the game server never answers.                       *)
C4_RequestEnds ==
    (op = "stats" /\ pc \notin {"idle", "done"}) ~> (pc = "done")

(* C5: every live counter of a successful aggregated-stats response is a  *)
(* non-negative integer, whatever body the game server sent.              *)
C5_LiveCountersAreNaturals ==
    Succeeded("stats") =>
        \A f \in LiveFields :
            /\ response.body.live[f].t = "int"
            /\ response.body.live[f].v >= 0

(* A request answered after the pinned one, of the same operation, with   *)
(* the database unchanged from the pinned request's arrival to now.       *)
SameCallAgain ==
    /\ pc = "done" /\ ~dirty
    /\ pinned # NoPin
    /\ pinned.op = op
    /\ pinned.db = db

(* The two answers are the same: the status, and then the body. *)
SameAnswer(a, b) == a.status = b.status /\ a.body = b.body

(* C6 as claimed: a read operation called twice with unchanged backing    *)
(* data yields identical results (stated for two calls that both          *)
(* succeed, the least the claim says).                                    *)
C6_SameDataSameResult ==
    (SameCallAgain /\ response.status = 200 /\ pinned.response.status = 200) =>
        SameAnswer(response, pinned.response)

(* C6: a read operation called twice with unchanged backing data, the     *)
(* same outcomes of its external calls (the game server's answer, the     *)
(* queries the store rejected) and, for the activity operation, the same  *)
(* day, yields identical results: nothing a call leaves behind changes    *)
(* what a later call answers.                                             *)
C6_SameInputsSameResult ==
    (SameCallAgain /\ pinned.seen = Seen) => SameAnswer(response, pinned.response)

C6_Witness ==
    /\ SameCallAgain /\ pinned.seen = Seen
    /\ op = "stats"
    /\ response.status = 200
    /\ loc.fetched = "neterr"

(* What the claims say of a leaderboard: the documents with the largest   *)
(* values of the key, at most TopLimit of them, as they are stored.       *)
TopOf(list, coll, key) ==
    /\ Len(list) = Min(TopLimit, Count(coll))
    /\ \A k \in 1..Len(list) :
          /\ list[k].uid \in DOMAIN coll
          /\ list[k] = ("uid" :> list[k].uid) @@ coll[list[k].uid]
    /\ \A k, m \in 1..Len(list) : k # m => list[k].uid # list[m].uid
    /\ \A i \in DOMAIN coll :
          (\A k \in 1..Len(list) : list[k].uid # i) =>
              \A k \in 1..Len(list) : coll[i][key] <= list[k][key]

StrictlyDescending(list, key) ==
    \A k \in 1..(Len(list) - 1) : list[k][key] > list[k + 1][key]

Descending(list, key) ==
    \A k \in 1..(Len(list) - 1) : list[k][key] >= list[k + 1][key]

(* C7 as claimed: each leaderboard holds the at most 10 records with the  *)
(* largest values of its key, sorted strictly descending on it.           *)
C7_StrictLeaderboards ==
    Succeeded("players") =>
        /\ TopOf(response.body.topByPoints, db.player_stats, "points")
        /\ StrictlyDescending(response.body.topByPoints, "points")
        /\ TopOf(response.body.topByGames, db.player_stats, "gamesPlayed")
        /\ StrictlyDescending(response.body.topByGames, "gamesPlayed")

(* C7: each leaderboard holds the at most 10 records with the largest     *)
(* values of its key, sorted descending on it: no entry's key is smaller  *)
(* than the next entry's; players with equal keys follow each other.      *)
C7_Leaderboards ==
    Succeeded("players") =>
        /\ TopOf(response.body.topByPoints, db.player_stats, "points")
        /\ Descending(response.body.topByPoints, "points")
        /\ TopOf(response.body.topByGames, db.player_stats, "gamesPlayed")
        /\ Descending(response.body.topByGames, "gamesPlayed")

C7_Witness ==
    /\ Succeeded("players")
    /\ Count(db.player_stats) > TopLimit
    /\ response.body.topByPoints[1].points = response.body.topByPoints[2].points
    /\ response.body.topByPoints[TopLimit].points < response.body.topByPoints[1].points
    /\ response.body.topByPoints # response.body.topByGames

(* C8: the history of a successful aggregated-stats response is the       *)
(* min(7, n) snapshots with the latest dates, oldest first.               *)
C8_RecentHistoryAscending ==
    Succeeded("stats") =>
        LET h == response.body.history
            dates == {h[k].date : k \in 1..Len(h)}
        IN /\ Len(h) = Min(HistoryLimit, Count(db.peak_stats))
           /\ \A k \in 1..Len(h) :
                 h[k].date \in DOMAIN db.peak_stats /\ h[k] = db.peak_stats[h[k].date]
           /\ \A k \in 1..(Len(h) - 1) : h[k].date < h[k + 1].date
           /\ \A d \in DOMAIN db.peak_stats \ dates : \A e \in dates : d < e

C8_Witness ==
    /\ Succeeded("stats")
    /\ Count(db.peak_stats) > HistoryLimit
    /\ Len(response.body.history) = HistoryLimit
    /\ response.body.history[1].date > 1

(* The average the claim describes, in tenths of a minute: over the       *)
(* matches whose two timestamps are present, whatever their values.       *)
Present(x) == x # Null

AvgOverPresent(matches) ==
    LET both == {k \in 1..Len(matches) :
                    Present(matches[k].startedAt) /\ Present(matches[k].endedAt)}
        total == SumOver([k \in both |-> matches[k].endedAt - matches[k].startedAt], both)
    IN IF both = {} THEN 0
       ELSE RoundDiv(total * 10, Cardinality(both) * MsPerMinute)

(* C9: avgDurationMinutes is the average of endedAt - startedAt over      *)
(* exactly the matches in which both timestamps are present, a timestamp  *)
(* equal to 0 included, in minutes rounded to one decimal place, and 0    *)
(* when there is no such match.                                           *)
C9_AverageOverPresent ==
    Succeeded("balance") =>
        response.body.avgDurationMinutes = AvgOverPresent(MatchSample(db.matches))

(* C10: a successful activity response has dau <= wau <= totalUsers,      *)
(* newUsersToday <= totalUsers and 0 <= dauWauRatio <= 100, also when     *)
(* players are created and updated between the handler's count queries.   *)
C10_ActivityCountsOrdered ==
    Succeeded("activity") =>
        LET b == response.body
        IN /\ b.dau <= b.wau
           /\ b.wau <= b.totalUsers
           /\ b.newUsersToday <= b.totalUsers
           /\ 0 <= b.dauWauRatio
           /\ b.dauWauRatio <= 100

(* A player's game was recorded after the day's count and before the      *)
(* week's: by now every player has played today, and none was counted.    *)
C10_Witness ==
    /\ Succeeded("activity")
    /\ dirty
    /\ response.body.dau = 0
    /\ response.body.wau = MaxActive
    /\ response.body.totalUsers = MaxActive
    /\ \A i \in DOMAIN db.player_stats :
          db.player_stats[i].lastPlayedAt >= loc.todayStart

====
